---- MODULE Spec2Model ----
(***************************************************************************)
(* A model of the USGS EROS M2M batch download client.                     *)
(*                                                                         *)
(* Three entry points drive the same workflow:                             *)
(*   "download.py"       the script client   (src/src/download.py)         *)
(*   "EROS_Download.py"  the class client    (src/src/EROS_Download.py)    *)
(*   "example.py"        the class client driven by src/src/example.py     *)
(* The API server, the download host and the local data directory are the  *)
(* environment: every response is chosen nondeterministically.             *)
(***************************************************************************)
EXTENDS Integers, Sequences, FiniteSets, TLC

\* Python's None, for values that are otherwise strings.
None == "None"

(***************************************************************************)
(* Bounds of the model.                                                    *)
(***************************************************************************)
\* longest list of matches in a dataset-search response
MaxMatches == 2
\* longest list of results in a scene-search response
MaxScenes == 1
\* longest list of products in a download-options response
MaxOptions == 2
\* most wait cycles of the polling loop the model follows for one dataset
MaxPolls == 2
\* most coordinate tuples in the boundary of the polygon
MaxCords == 2

(***************************************************************************)
(* Configuration (src/src/config.py).                                      *)
(***************************************************************************)
\* A URL is the sequence of the strings it is concatenated from.
service_url == <<"https://m2m.cr.usgs.gov/api/api/json/stable/">>
dataset_names == <<"WORLDVIEW-1", "WORLDVIEW-2", "WORLDVIEW-3">>

Variants == {"download.py", "EROS_Download.py", "example.py"}
ClassBased(v) == v \in {"EROS_Download.py", "example.py"}

(***************************************************************************)
(* The values the environment draws from.  `world` fixes them for a        *)
(* behaviour: the whole run is followed against a server with few          *)
(* distinct values, one function at a time against a server with more.     *)
(***************************************************************************)
VARIABLE world

SmallWorld == [Tokens |-> {"key1", "key2"}, Aliases |-> {"wv1", "wv2"}, Ents |-> {"A1"},
               Prods |-> {"P1"}, Ids |-> {"D1", "D2"}]
LargeWorld == [Tokens |-> {"key1"}, Aliases |-> {"wv1", "wv2"}, Ents |-> {"A1", "A2"},
               Prods |-> {"P1"}, Ids |-> {"D1", "D2"}]
\* the server of get_scenes_for_datasets offers two products of a scene
ScenesWorld == [Tokens |-> {"key1"}, Aliases |-> {"wv1", "wv2"}, Ents |-> {"A1"},
                Prods |-> {"P1", "P2"}, Ids |-> {"D1"}]

Tokens == world.Tokens
Aliases == world.Aliases
Ents == world.Ents
Ids == world.Ids
\* the download host serves each scene at one address
UrlOf(e) == <<"http://x/", e, ".zip">>
Prods == world.Prods
Operations == {"login", "logout", "dataset-search", "scene-search",
               "download-options", "download-request", "download-retrieve"}

\* all sequences over S of length at most n
RECURSIVE SeqsUpTo(_, _)
SeqsUpTo(S, n) ==
    IF n = 0 THEN {<<>>}
    ELSE LET shorter == SeqsUpTo(S, n - 1)
         IN shorter \cup {Append(s, x) : s \in {t \in shorter : Len(t) = n - 1}, x \in S}

Range(s) == {s[n] : n \in 1..Len(s)}

DatasetRecords == {[datasetAlias |-> a, collectionName |-> a] : a \in Aliases}
SceneResults == {[entityId |-> e] : e \in Ents}
Products == [entityId : Ents, id : Prods, available : BOOLEAN]
AvailableItems == {[downloadId |-> d, entityId |-> e, url |-> UrlOf(e)] : d \in Ids, e \in Ents}

\* an `available` list names each download id at most once
AvailableLists ==
    {s \in SeqsUpTo(AvailableItems, Cardinality(Ids)) :
        \A m, n \in 1..Len(s) : m # n => s[m].downloadId # s[n].downloadId}

\* the `data` field of a success envelope, by operation
DataOf(op) ==
    CASE op = "login" -> Tokens
      [] op = "logout" -> {None, "failed"}
      [] op = "dataset-search" -> SeqsUpTo(DatasetRecords, MaxMatches)
      [] op = "scene-search" ->
            {[recordsReturned |-> Len(rs), results |-> rs] :
                rs \in SeqsUpTo(SceneResults, MaxScenes)}
      [] op = "download-options" -> SeqsUpTo(Products, MaxOptions)
      [] op = "download-request" -> {[preparingDownloads |-> <<>>]}
      [] op = "download-retrieve" -> {[available |-> a] : a \in AvailableLists}

\* the `data` field of a response the client rejects (it is never read)
NoData(op) ==
    CASE op = "login" -> "key1"
      [] op = "logout" -> None
      [] op = "dataset-search" -> <<>>
      [] op = "scene-search" -> [recordsReturned |-> 0, results |-> <<>>]
      [] op = "download-options" -> <<>>
      [] op = "download-request" -> [preparingDownloads |-> <<>>]
      [] op = "download-retrieve" -> [available |-> <<>>]

(***************************************************************************)
(* An HTTP response: a status and a body.  The body is either text that is *)
(* not JSON ("garbage"), JSON without an errorCode member ("json"), or the *)
(* envelope {errorCode, errorMessage, data} ("envelope").                  *)
(***************************************************************************)
Responses(op) ==
    {[status |-> s, body |-> b, errorCode |-> None, data |-> NoData(op)] :
        s \in {200, 404}, b \in {"garbage", "json"}}
    \cup {[status |-> s, body |-> "envelope", errorCode |-> "AUTH_INVALID", data |-> NoData(op)] :
        s \in {200, 401}}
    \cup {[status |-> s, body |-> "envelope", errorCode |-> None, data |-> NoData(op)] :
        s \in {400, 401, 404}}
    \cup {[status |-> s, body |-> "envelope", errorCode |-> None, data |-> d] :
        s \in {200, 500}, d \in DataOf(op)}

NoResponse == [status |-> 0, body |-> "none", errorCode |-> None, data |-> None]
NoCall == [url |-> <<>>, data |-> None, headers |-> {}]
NoOutcome == [kind |-> "none", value |-> None, closed |-> FALSE, exit_status |-> 0]
NoTransfer == [name |-> <<>>, again |-> FALSE, existed |-> FALSE, body |-> FALSE,
               written |-> FALSE]

\* sys.exit() with no argument: SystemExit(None), exit status 0; it is not an
\* Exception, so the except clause of send_request does not catch it
sys_exit(closed) == [kind |-> "exit", value |-> None, closed |-> closed, exit_status |-> 0]
Return(v) == [kind |-> "return", value |-> v, closed |-> TRUE, exit_status |-> 0]

\* send_request_post with the headers argument forgotten
send_request_post_no_headers(url, data, apiKey) ==
    [url |-> url, data |-> data, headers |-> {}]

\* download.py send_request: the request that is posted
send_request_post(url, data, apiKey) ==
    [url |-> url, data |-> data,
     headers |-> IF apiKey = None THEN {} ELSE {<<"X-Auth-Token", apiKey>>}]

\* send_request without the branch for HTTP 401
send_request_no_401(r) ==
    IF r.body = "garbage" THEN sys_exit(TRUE)
    ELSE IF r.body = "json" THEN sys_exit(TRUE)
    ELSE IF r.errorCode # None THEN sys_exit(FALSE)
    ELSE IF r.status = 404 THEN sys_exit(FALSE)
    ELSE IF r.status = 400 THEN sys_exit(FALSE)
    ELSE Return(r.data)

\* send_request that logs a non-null errorCode and carries on
send_request_error_code_logged(r) ==
    IF r.body = "garbage" THEN sys_exit(TRUE)
    ELSE IF r.body = "json" THEN sys_exit(TRUE)
    ELSE IF r.status = 404 THEN sys_exit(FALSE)
    ELSE IF r.status = 401 THEN sys_exit(FALSE)
    ELSE IF r.status = 400 THEN sys_exit(FALSE)
    ELSE Return(r.data)

\* send_request: what becomes of the response r (download.py lines 53-76; the
\* same statements are lines 63-88 of DownloadEORS.send_request)
send_request(r) ==
    IF r.body = "garbage" THEN sys_exit(TRUE)            \* json.loads raises
    ELSE IF r.body = "json" THEN sys_exit(TRUE)          \* output['errorCode'] raises
    ELSE IF r.errorCode # None THEN sys_exit(FALSE)
    ELSE IF r.status = 404 THEN sys_exit(FALSE)
    ELSE IF r.status = 401 THEN sys_exit(FALSE)
    ELSE IF r.status = 400 THEN sys_exit(FALSE)
    ELSE Return(r.data)

\* EROS_Download.py DownloadEORS.send_request: the request that is posted
DownloadEORS_send_request_post(request, data, api_key) ==
    [url |-> service_url \o request, data |-> data,
     headers |-> IF api_key = None THEN {} ELSE {<<"X-Auth-Token", api_key>>}]

(***************************************************************************)
(* get_area_rect_from_klm: the bounding box of the polygon's boundary.     *)
(* The coordinates text is split at white space into tuples and each tuple *)
(* at its commas; the numbers are laid out three to a row (reshape(-1, 3)) *)
(* and column 0 is read as longitude, column 1 as latitude.                *)
(***************************************************************************)
\* the numbers of all tuples, one after another
RECURSIVE Flat(_)
Flat(tuples) == IF tuples = <<>> THEN <<>> ELSE Head(tuples) \o Flat(Tail(tuples))

\* np.asarray(...).reshape(-1, 3)
Reshape3(tuples) ==
    LET flat == Flat(tuples)
    IN [r \in 1..(Len(flat) \div 3) |-> <<flat[3 * r - 2], flat[3 * r - 1], flat[3 * r]>>]

\* cords[:, c].min() and cords[:, c].max(), columns counted from 1
ColumnMin(rows, c) == CHOOSE x \in {rows[r][c] : r \in 1..Len(rows)} :
                        \A r \in 1..Len(rows) : x <= rows[r][c]
ColumnMax(rows, c) == CHOOSE x \in {rows[r][c] : r \in 1..Len(rows)} :
                        \A r \in 1..Len(rows) : x >= rows[r][c]

\* the latitudes taken from the longitude column
get_area_rect_from_klm_one_column(tuples) ==
    LET rows == Reshape3(tuples)
    IN [lower_left |-> [latitude |-> ColumnMin(rows, 1), longitude |-> ColumnMin(rows, 1)],
        upper_right |-> [latitude |-> ColumnMax(rows, 1), longitude |-> ColumnMax(rows, 1)]]

get_area_rect_from_klm(tuples) ==
    LET rows == Reshape3(tuples)
        lower_long == ColumnMin(rows, 1)
        upper_long == ColumnMax(rows, 1)
        left_lat == ColumnMin(rows, 2)
        right_lat == ColumnMax(rows, 2)
    IN [lower_left |-> [latitude |-> left_lat, longitude |-> lower_long],
        upper_right |-> [latitude |-> right_lat, longitude |-> upper_long]]

\* spatial_filter = {'filterType': 'mbr', 'lowerLeft': ..., 'upperRight': ...}
SpatialFilter(rect) ==
    [filterType |-> "mbr", lowerLeft |-> rect.lower_left, upperRight |-> rect.upper_right]

NoFilter == [filterType |-> "none", lowerLeft |-> None, upperRight |-> None]

\* the polygon of the configured KML file
kml_file == <<<<0, 0, 0>>, <<1, 0, 0>>, <<1, 1, 0>>, <<0, 0, 0>>>>

(***************************************************************************)
(* Python dicts keep insertion order: a dict is the sequence of its        *)
(* [key, value] items; assigning to a key that is present replaces the     *)
(* value in place, assigning to a new key appends an item.                 *)
(***************************************************************************)
Keys(d) == {d[n].key : n \in 1..Len(d)}
Get(d, k) == (CHOOSE it \in Range(d) : it.key = k).value
DictSet(d, k, v) ==
    IF k \in Keys(d)
    THEN [n \in 1..Len(d) |-> IF d[n].key = k THEN [key |-> k, value |-> v] ELSE d[n]]
    ELSE Append(d, [key |-> k, value |-> v])

VARIABLES
    variant,               \* which entry point runs
    pc,                    \* the statement the run is at
    exit_status,           \* -1 while the process runs, then its exit status
    api_key,               \* apiKey / self.api_key
    i,                     \* index of the current iteration of the active for loop
    datasets,              \* dict: dataset name -> first match
    scene_ids,             \* entity ids of the scene-search just made
    scenes_to_download,    \* dict: dataset alias -> list of {entityId, productId}
    ready_downloads_info,  \* dict: download id -> {entityId, url}
    existing_entities,     \* download.py: os.listdir(DATA_PATH), read once
    files,                 \* names of the files in the data directory
    call,                  \* the last request posted by send_request
    resp,                  \* the response to it
    out,                   \* what send_request did with the response
    lastOp,                \* the last operation started: an API operation or "file-fetch"
    when,                  \* what had happened before the last operation started
    loginDone,             \* login has returned a key
    logoutCalled,          \* the logout request has been posted
    failed,                \* some API call was answered with a fatal response
    loginKey,              \* the key the login response carried, None before
    transfer,              \* what the last call of download_to_file did
    fetched,               \* the file names download_to_file has been called with
    cords,                 \* the coordinates text of the KML polygon, as a list of tuples
    spatial_filter,        \* the spatial filter built from the bounding box
    requested,             \* the aliases a download-request has been posted for, in order
    waits,                 \* time.sleep(30) calls for the current dataset
    retrieves,             \* download-retrieve calls for the current dataset
    seenIds                \* download ids seen in `available` during get_download_urls

prog == <<api_key, i, datasets, scene_ids, scenes_to_download, ready_downloads_info,
          existing_entities, files>>
poll == <<waits, retrieves, seenIds, requested>>
hist == <<call, resp, out, lastOp, when, loginDone, logoutCalled, failed, loginKey,
          transfer, fetched>>
geo == <<cords, spatial_filter>>
vars == <<world, variant, pc, exit_status, prog, poll, hist, geo>>

\* a fatal response as the interface describes it: an unparsable body, a
\* non-null errorCode, or HTTP status 400, 401 or 404
Fatal(r) ==
    \/ r.body # "envelope"
    \/ r.errorCode # None
    \/ r.status \in {400, 401, 404}

\* bookkeeping of one send_request call
Record(op, c, r, o) ==
    /\ call' = c
    /\ resp' = r
    /\ out' = o
    /\ lastOp' = op
    /\ when' = [loginDone |-> loginDone, logoutCalled |-> logoutCalled, failed |-> failed]
    /\ loginDone' = (loginDone \/ (op = "login" /\ o.kind = "return"))
    /\ logoutCalled' = (logoutCalled \/ op = "logout")
    /\ failed' = (failed \/ Fatal(r))
    /\ loginKey' = IF op = "login" /\ ~Fatal(r) THEN r.data ELSE loginKey
    /\ UNCHANGED <<transfer, fetched>>

\* the request a call site posts for operation op: the script passes
\* service_url + op as url, the class passes op as request
Post(op, data, key) ==
    IF ClassBased(variant)
    THEN DownloadEORS_send_request_post(<<op>>, data, key)
    ELSE send_request_post(service_url \o <<op>>, data, key)

Init ==
    /\ world = SmallWorld
    /\ variant \in Variants
    /\ pc = "login"
    /\ exit_status = -1
    /\ api_key = None
    /\ i = 0
    /\ datasets = <<>>
    /\ scene_ids = <<>>
    /\ scenes_to_download = <<>>
    /\ ready_downloads_info = <<>>
    /\ existing_entities = {}
    /\ files = {}
    /\ call = NoCall
    /\ resp = NoResponse
    /\ out = NoOutcome
    /\ lastOp = "none"
    /\ when = [loginDone |-> FALSE, logoutCalled |-> FALSE, failed |-> FALSE]
    /\ loginDone = FALSE
    /\ logoutCalled = FALSE
    /\ failed = FALSE
    /\ loginKey = None
    /\ waits = 0
    /\ retrieves = 0
    /\ seenIds = {}
    /\ requested = <<>>
    /\ transfer = NoTransfer
    /\ fetched = {}
    /\ cords = kml_file
    /\ spatial_filter = NoFilter

(***************************************************************************)
(* Where the run goes when a stage has nothing (more) to do.               *)
(***************************************************************************)
\* get_download_urls has returned: file fetch comes next
AfterUrls == "start-fetch"
\* get_scenes_for_datasets has returned std: get_download_urls loops over it
AfterScenes(std) == IF Len(std) > 0 THEN "download-request" ELSE AfterUrls
\* get_available_datasets has returned ds
AfterDatasets(ds) ==
    IF variant = "example.py" /\ ~(Len(ds) > 0) THEN "logout"
    ELSE IF Len(ds) > 0 THEN "scene-search"
    ELSE AfterScenes(<<>>)

(***************************************************************************)
(* How a process ends.  Its variables end with it; the files it wrote and  *)
(* the record of its calls stay.                                           *)
(***************************************************************************)
Gone ==
    /\ api_key' = None
    /\ i' = 0
    /\ datasets' = <<>>
    /\ scene_ids' = <<>>
    /\ scenes_to_download' = <<>>
    /\ ready_downloads_info' = <<>>
    /\ existing_entities' = {}
    /\ waits' = 0
    /\ retrieves' = 0
    /\ seenIds' = {}
    /\ requested' = <<>>

\* SystemExit raised by send_request leaves the process
Exited(o) ==
    /\ pc' = "exited"
    /\ exit_status' = o.exit_status
    /\ Gone
    /\ UNCHANGED files

\* an exception nobody catches: traceback, exit status 1
Crashed ==
    /\ pc' = "crashed"
    /\ exit_status' = 1
    /\ Gone

\* the end of the script is reached
Done ==
    /\ pc' = "done"
    /\ exit_status' = 0
    /\ Gone
    /\ UNCHANGED files

(***************************************************************************)
(* Login: download.py __main__ lines 296-298, DownloadEORS.__init__.        *)
(***************************************************************************)
Login ==
    /\ pc = "login"
    /\ \E r \in Responses("login") :
        LET c == Post("login", [username |-> "user", password |-> "password"], None)
            o == send_request(r)
        IN /\ Record("login", c, r, o)
           /\ IF o.kind = "return"
              THEN /\ api_key' = o.value
                   /\ spatial_filter' = SpatialFilter(get_area_rect_from_klm(cords))
                   /\ i' = 1
                   /\ pc' = "dataset-search"
                   /\ UNCHANGED <<exit_status, datasets, scene_ids, scenes_to_download,
                                  ready_downloads_info, existing_entities, files, poll>>
              ELSE Exited(o) /\ UNCHANGED spatial_filter
    /\ UNCHANGED <<world, variant, cords>>

(***************************************************************************)
(* get_avaliabole_datasets / get_available_datasets: one iteration.        *)
(***************************************************************************)
\* the search result stored even when it has no match
first_match_or_none(found, dataset, dataset_data) ==
    DictSet(found, dataset, IF Len(dataset_data) > 0 THEN dataset_data[1] ELSE None)

\* the last match stored in place of the first
last_match(found, dataset, dataset_data) ==
    IF Len(dataset_data) > 0
    THEN DictSet(found, dataset, dataset_data[Len(dataset_data)])
    ELSE found

\* if len(dataset_data):
\*     datasets[dataset] = dataset_data[0]
first_match(found, dataset, dataset_data) ==
    IF Len(dataset_data) > 0
    THEN DictSet(found, dataset, dataset_data[1])
    ELSE found

DatasetSearch ==
    /\ pc = "dataset-search"
    /\ \E r \in Responses("dataset-search") :
        LET dataset == dataset_names[i]
            c == Post("dataset-search",
                      [datasetName |-> dataset, spatialFilter |-> spatial_filter,
                       temporalFilter |-> "temporal_filter"], api_key)
            o == send_request(r)
            dataset_data == o.value
            ds == first_match(datasets, dataset, dataset_data)
        IN /\ Record("dataset-search", c, r, o)
           /\ IF o.kind = "return"
              THEN /\ datasets' = ds
                   /\ IF i < Len(dataset_names)
                      THEN i' = i + 1 /\ pc' = pc
                      ELSE i' = 1 /\ pc' = AfterDatasets(ds)
                   /\ UNCHANGED <<exit_status, api_key, scene_ids, scenes_to_download,
                                  ready_downloads_info, existing_entities, files, poll>>
              ELSE Exited(o)
    /\ UNCHANGED <<world, variant, geo>>

(***************************************************************************)
(* get_sences_for_datasets / get_scenes_for_datasets: one iteration is a   *)
(* scene-search and, when it reports records, a download-options call.     *)
(***************************************************************************)
\* the return statement indented into the loop body
NextDataset_return_in_loop(std) ==
    i' = 1 /\ pc' = AfterScenes(std) /\ datasets' = <<>>

\* the loop over datasets.items() moves on, or the function returns std;
\* datasets is not read after that, and the model keeps no copy of it
NextDataset(std) ==
    IF i < Len(datasets)
    THEN i' = i + 1 /\ pc' = "scene-search" /\ UNCHANGED datasets
    ELSE i' = 1 /\ pc' = AfterScenes(std) /\ datasets' = <<>>

SceneSearch ==
    /\ pc = "scene-search"
    /\ \E r \in Responses("scene-search") :
        LET dataset_info == datasets[i].value
            dataset_name == dataset_info.datasetAlias
            c == Post("scene-search",
                      [datasetName |-> dataset_name, maxResults |-> 10, startingNumber |-> 1,
                       sceneFilter |-> [spatialFilter |-> spatial_filter,
                                       acquisitionFilter |-> "temporal_filter"]], api_key)
            o == send_request(r)
            scenes == o.value
        IN /\ Record("scene-search", c, r, o)
           /\ IF o.kind = "return"
              THEN /\ IF scenes.recordsReturned > 0
                      THEN /\ scene_ids' = [n \in 1..Len(scenes.results) |->
                                               scenes.results[n].entityId]
                           /\ pc' = "download-options"
                           /\ i' = i
                           /\ UNCHANGED datasets
                      ELSE /\ NextDataset(scenes_to_download)
                           /\ UNCHANGED scene_ids
                   /\ UNCHANGED <<exit_status, api_key, scenes_to_download,
                                  ready_downloads_info, existing_entities, files, poll>>
              ELSE Exited(o)
    /\ UNCHANGED <<world, variant, geo>>

\* [{'entityId': product['entityId'], 'productId': product['id']}
\*  for product in download_options if product['available']]
\* the list comprehension without its condition
Downloads_all(download_options) ==
    [n \in 1..Len(download_options) |->
        [entityId |-> download_options[n].entityId, productId |-> download_options[n].id]]

RECURSIVE Downloads(_)
Downloads(download_options) ==
    IF download_options = <<>> THEN <<>>
    ELSE LET product == Head(download_options)
             rest == Downloads(Tail(download_options))
         IN IF product.available
            THEN <<[entityId |-> product.entityId, productId |-> product.id]>> \o rest
            ELSE rest

\* the candidate list stored whether or not it is empty
store_downloads_always(std, dataset_name, downloads) ==
    DictSet(std, dataset_name, downloads)

\* if downloads:
\*     sence_to_downloads[dataset_name] = downloads
store_downloads(std, dataset_name, downloads) ==
    IF downloads # <<>>
    THEN DictSet(std, dataset_name, downloads)
    ELSE std

DownloadOptions ==
    /\ pc = "download-options"
    /\ \E r \in Responses("download-options") :
        LET dataset_name == datasets[i].value.datasetAlias
            c == Post("download-options",
                      [datasetName |-> dataset_name, entityIds |-> scene_ids], api_key)
            o == send_request(r)
            downloads == Downloads(o.value)
            std == store_downloads(scenes_to_download, dataset_name, downloads)
        IN /\ Record("download-options", c, r, o)
           /\ IF o.kind = "return"
              THEN /\ scenes_to_download' = std
                   /\ NextDataset(std)
                   /\ UNCHANGED <<exit_status, api_key, scene_ids,
                                  ready_downloads_info, existing_entities, files, poll>>
              ELSE Exited(o)
    /\ UNCHANGED <<world, variant, geo>>

(***************************************************************************)
(* get_download_urls: for each dataset a download-request, a first         *)
(* download-retrieve, and the polling loop.                                *)
(***************************************************************************)
label == "download-sample"
requested_downloads_count == Len(scenes_to_download[i].value)

\* for download in ready_downloads['available']:
\*     ready_downloads_info[download['downloadId']] = info
RECURSIVE MergeFirst(_, _)
MergeFirst(info, available) ==
    IF available = <<>> THEN info
    ELSE LET download == Head(available)
         IN MergeFirst(DictSet(info, download.downloadId,
                               [entityId |-> download.entityId, url |-> download.url]),
                       Tail(available))

\* the polling merge leaving its loop after the first item
MergePoll_first_item(info, available) ==
    IF available = <<>> THEN info
    ELSE LET download == Head(available)
         IN IF download.downloadId \notin Keys(info)
            THEN DictSet(info, download.downloadId,
                         [entityId |-> download.entityId, url |-> download.url])
            ELSE info

\* for download in ready_downloads['available']:
\*     if download['downloadId'] not in ready_downloads_info:
\*         ready_downloads_info[download['downloadId']] = info
RECURSIVE MergePoll(_, _)
MergePoll(info, available) ==
    IF available = <<>> THEN info
    ELSE LET download == Head(available)
         IN MergePoll(IF download.downloadId \notin Keys(info)
                      THEN DictSet(info, download.downloadId,
                                   [entityId |-> download.entityId, url |-> download.url])
                      ELSE info,
                      Tail(available))

\* the loop guard with a limit of one wait
WhileNotReady_one_retry(info) == Len(info) < requested_downloads_count /\ waits < 1

\* the loop guard with != for <
WhileNotReady_not_equal(info) == Len(info) # requested_downloads_count

\* the loop guard with <= for <
WhileNotReady_inclusive(info) == Len(info) <= requested_downloads_count

\* while len(ready_downloads_info) < requested_downloads_count
WhileNotReady(info) == Len(info) < requested_downloads_count

DownloadRequest ==
    /\ pc = "download-request"
    /\ \E r \in Responses("download-request") :
        LET downloads == scenes_to_download[i].value
            c == Post("download-request", [downloads |-> downloads, label |-> label], api_key)
            o == send_request(r)
        IN /\ Record("download-request", c, r, o)
           /\ IF o.kind = "return"
              THEN /\ pc' = "download-retrieve"
                   /\ waits' = 0
                   /\ retrieves' = 0
                   /\ requested' = Append(requested, scenes_to_download[i].key)
                   /\ UNCHANGED <<exit_status, prog, seenIds>>
              ELSE Exited(o)
    /\ UNCHANGED <<world, variant, geo>>

\* the first download-retrieve of a dataset and the merge of its answer
DownloadRetrieve ==
    /\ pc = "download-retrieve"
    /\ \E r \in Responses("download-retrieve") :
        LET c == Post("download-retrieve", [label |-> label], api_key)
            o == send_request(r)
            ready_downloads == o.value
            info == MergeFirst(ready_downloads_info, ready_downloads.available)
        IN /\ Record("download-retrieve", c, r, o)
           /\ IF o.kind = "return"
              THEN /\ ready_downloads_info' = info
                   /\ retrieves' = retrieves + 1
                   /\ seenIds' = seenIds \cup
                                   {d.downloadId : d \in Range(ready_downloads.available)}
                   /\ pc' = IF WhileNotReady(info) THEN "sleep" ELSE "complete"
                   /\ UNCHANGED <<exit_status, api_key, i, datasets, scene_ids,
                                  scenes_to_download, existing_entities, files, waits,
                                  requested>>
              ELSE Exited(o)
    /\ UNCHANGED <<world, variant, geo>>

\* the wait followed by a new download-request
Sleep_resubmit ==
    /\ pc = "sleep"
    /\ waits < MaxPolls
    /\ waits' = waits + 1
    /\ pc' = "download-request"
    /\ UNCHANGED <<world, variant, geo, exit_status, prog, hist, retrieves, seenIds,
                   requested>>

\* time.sleep(30) in the body of the while loop
Sleep ==
    /\ pc = "sleep"
    /\ waits < MaxPolls
    /\ waits' = waits + 1
    /\ pc' = "poll"
    /\ UNCHANGED <<world, variant, geo, exit_status, prog, hist, retrieves, seenIds,
                   requested>>

\* the download-retrieve call in the body of the while loop and its merge
Poll ==
    /\ pc = "poll"
    /\ \E r \in Responses("download-retrieve") :
        LET c == Post("download-retrieve", [label |-> label], api_key)
            o == send_request(r)
            ready_downloads == o.value
            info == MergePoll(ready_downloads_info, ready_downloads.available)
        IN /\ Record("download-retrieve", c, r, o)
           /\ IF o.kind = "return"
              THEN /\ ready_downloads_info' = info
                   /\ retrieves' = retrieves + 1
                   /\ seenIds' = seenIds \cup
                                   {d.downloadId : d \in Range(ready_downloads.available)}
                   /\ pc' = IF WhileNotReady(info) THEN "sleep" ELSE "complete"
                   /\ UNCHANGED <<exit_status, api_key, i, datasets, scene_ids,
                                  scenes_to_download, existing_entities, files, waits,
                                  requested>>
              ELSE Exited(o)
    /\ UNCHANGED <<world, variant, geo>>

\* the map emptied before the next dataset is taken up
Complete_new_map ==
    /\ pc = "complete"
    /\ IF i < Len(scenes_to_download)
       THEN i' = i + 1 /\ pc' = "download-request" /\ ready_downloads_info' = <<>>
       ELSE i' = 1 /\ pc' = AfterUrls /\ UNCHANGED ready_downloads_info
    /\ UNCHANGED <<world, variant, geo, exit_status, api_key, datasets, scene_ids,
                   scenes_to_download, existing_entities, files, hist, poll>>

\* logger.info('All ... downloads from ... are available to download.'), then
\* the next dataset, or the function returns
Complete ==
    /\ pc = "complete"
    /\ IF i < Len(scenes_to_download)
       THEN i' = i + 1 /\ pc' = "download-request"
       ELSE i' = 1 /\ pc' = AfterUrls
    /\ UNCHANGED <<world, variant, geo, exit_status, api_key, datasets, scene_ids,
                   scenes_to_download, ready_downloads_info, existing_entities, files,
                   hist, poll>>

(***************************************************************************)
(* File fetch.                                                             *)
(***************************************************************************)
\* download['entityId'] + '.zip'
FileName(entityId) == <<entityId, ".zip">>
\* a name the download host may give in a Content-Disposition header
ServerNames == {<<"attachment", ".zip">>}
\* no Content-Disposition header
NoDisposition == <<>>
FileNames == {FileName(e) : e \in Ents} \cup (IF ClassBased(variant) THEN ServerNames ELSE {})

\* The data directory is first looked at here.  download.py lists it once,
\* before its loop (existing_entities = os.listdir(DATA_PATH)).
\* scenes_to_download is not read from here on, and the model keeps no copy of it.
StartFetch ==
    /\ pc = "start-fetch"
    /\ \E disk \in SUBSET FileNames :
        /\ files' = disk
        /\ existing_entities' = IF ClassBased(variant) THEN {} ELSE disk
    /\ i' = 1
    /\ pc' = IF Len(ready_downloads_info) > 0 THEN "file-fetch" ELSE "logout"
    /\ scenes_to_download' = <<>>
    /\ waits' = 0
    /\ retrieves' = 0
    /\ requested' = <<>>
    /\ UNCHANGED <<world, variant, geo, exit_status, api_key, datasets, scene_ids,
                   ready_downloads_info, hist, seenIds>>

\* the loop over ready_downloads_info.values() moves on, or ends
NextDownload ==
    IF i < Len(ready_downloads_info)
    THEN i' = i + 1 /\ pc' = "file-fetch"
    ELSE i' = 1 /\ pc' = "logout"

\* download.py download_to_file(url, file_name), by how far it gets:
\*   "head"    requests.head raises, or the response has no Content-Length
\*   "status"  requests.get raises, or raise_for_status does
\*   "stream"  the file is opened for writing and the transfer breaks off
\*   "ok"      the body is written to the file
download_to_file(file_name, how) ==
    IF how \in {"head", "status"} THEN files ELSE files \cup {file_name}

\* download_to_file: requests.get(url, stream=True) is reached unless the HEAD
\* request or the Content-Length lookup raised; open(file_name, 'wb') is
\* reached unless the GET or raise_for_status raised.  Neither looks at the
\* data directory.
download_to_file_transfer(file_name, how) ==
    [name |-> file_name, again |-> file_name \in fetched, existed |-> file_name \in files,
     body |-> how # "head", written |-> how \in {"stream", "ok"}]

\* download.py __main__, lines 326-330: one iteration
FetchScript ==
    /\ pc = "file-fetch"
    /\ ~ClassBased(variant)
    /\ LET download == ready_downloads_info[i].value
           file_name == FileName(download.entityId)
       IN IF file_name \notin existing_entities
          THEN \E how \in {"head", "status", "stream", "ok"} :
                /\ files' = download_to_file(file_name, how)
                /\ transfer' = download_to_file_transfer(file_name, how)
                /\ fetched' = fetched \cup {file_name}
                /\ lastOp' = "file-fetch"
                /\ when' = [loginDone |-> loginDone, logoutCalled |-> logoutCalled,
                            failed |-> failed]
                /\ IF how = "ok"
                   THEN /\ NextDownload
                        /\ UNCHANGED <<exit_status, api_key, datasets, scene_ids,
                                       scenes_to_download, ready_downloads_info,
                                       existing_entities, poll>>
                   ELSE Crashed
          ELSE /\ NextDownload
               /\ UNCHANGED <<exit_status, api_key, datasets, scene_ids, scenes_to_download,
                              ready_downloads_info, existing_entities, poll, files,
                              lastOp, when, transfer, fetched>>
    /\ UNCHANGED <<world, variant, geo, call, resp, out, loginDone, logoutCalled, failed, loginKey>>

\* Download.download_to_file(url, fileName) of the base class: the name in a
\* Content-Disposition header, when there is one, replaces fileName; a file of
\* that name is left alone, otherwise the body is streamed to it
Download_download_to_file(fileName, disposition) ==
    LET name == IF disposition # NoDisposition THEN disposition ELSE fileName
    IN IF name \in files THEN files ELSE files \cup {name}

\* Download.download_to_file: the body is requested and written only when no
\* file of the resolved name exists
Download_download_to_file_transfer(fileName, disposition) ==
    LET name == IF disposition # NoDisposition THEN disposition ELSE fileName
    IN [name |-> name, again |-> name \in fetched, existed |-> name \in files,
        body |-> name \notin files, written |-> name \notin files]

\* DownloadEORS.download_all_to_files: one iteration
FetchClass ==
    /\ pc = "file-fetch"
    /\ ClassBased(variant)
    /\ LET download_info == ready_downloads_info[i].value
           file_name == FileName(download_info.entityId)
       IN \E disposition \in {NoDisposition} \cup ServerNames :
            /\ files' = Download_download_to_file(file_name, disposition)
            /\ transfer' = Download_download_to_file_transfer(file_name, disposition)
            /\ fetched' = fetched \cup {transfer'.name}
    /\ lastOp' = "file-fetch"
    /\ when' = [loginDone |-> loginDone, logoutCalled |-> logoutCalled, failed |-> failed]
    /\ NextDownload
    /\ UNCHANGED <<world, variant, geo, exit_status, api_key, datasets, scene_ids,
                   scenes_to_download, ready_downloads_info, existing_entities, poll,
                   call, resp, out, loginDone, logoutCalled, failed, loginKey>>

(***************************************************************************)
(* Logout.                                                                 *)
(***************************************************************************)
endpoint == "logout"

\* Download.close_api() of the base class: the logout operation, sent through
\* the transport with the session's key
Download_close_api == DownloadEORS_send_request_post(<<"logout">>, None, api_key)

\* the logout request of each entry point
LogoutPost ==
    CASE variant = "download.py" ->
            send_request_post(service_url \o <<endpoint>>, None, api_key)
      [] variant = "EROS_Download.py" ->
            DownloadEORS_send_request_post(service_url \o <<endpoint>>, <<>>, api_key)
      [] variant = "example.py" -> Download_close_api

Logout ==
    /\ pc = "logout"
    /\ \E r \in Responses("logout") :
        LET o == send_request(r)
        IN /\ Record("logout", LogoutPost, r, o)
           /\ IF o.kind = "return" THEN Done ELSE Exited(o)
    /\ UNCHANGED <<world, variant, geo>>

Next ==
    \/ Login
    \/ DatasetSearch
    \/ SceneSearch
    \/ DownloadOptions
    \/ DownloadRequest
    \/ DownloadRetrieve
    \/ Sleep
    \/ Poll
    \/ Complete
    \/ StartFetch
    \/ FetchScript
    \/ FetchClass
    \/ Logout

Spec == Init /\ [][Next]_vars

(***************************************************************************)
(* get_download_urls on its own: called with any mapping of dataset        *)
(* aliases to non-empty candidate lists, by a client that has logged in.   *)
(***************************************************************************)
Candidates == [entityId : Ents, productId : Prods]
\* a candidate list is not empty and names each product once
CandidateLists ==
    {l \in SeqsUpTo(Candidates, MaxOptions) :
        /\ l # <<>>
        /\ \A m, n \in 1..Len(l) : m # n => l[m] # l[n]}
UrlsInputs ==
    {<<>>}
    \cup {<<[key |-> "wv1", value |-> l1]>> : l1 \in CandidateLists}
    \cup {<<[key |-> "wv1", value |-> l1], [key |-> "wv2", value |-> l2]>> :
            l1 \in CandidateLists, l2 \in CandidateLists}

InitUrls ==
    /\ world = LargeWorld
    /\ variant \in {"download.py", "EROS_Download.py"}
    /\ scenes_to_download \in UrlsInputs
    /\ pc = AfterScenes(scenes_to_download)
    /\ exit_status = -1
    /\ api_key \in Tokens
    /\ i = 1
    /\ datasets = <<>>
    /\ scene_ids = <<>>
    /\ ready_downloads_info = <<>>
    /\ existing_entities = {}
    /\ files = {}
    /\ call = NoCall
    /\ resp = NoResponse
    /\ out = NoOutcome
    /\ lastOp = "none"
    /\ when = [loginDone |-> TRUE, logoutCalled |-> FALSE, failed |-> FALSE]
    /\ loginDone = TRUE
    /\ logoutCalled = FALSE
    /\ failed = FALSE
    /\ loginKey = api_key
    /\ waits = 0
    /\ retrieves = 0
    /\ seenIds = {}
    /\ requested = <<>>
    /\ transfer = NoTransfer
    /\ fetched = {}
    /\ cords = kml_file
    /\ spatial_filter = SpatialFilter(get_area_rect_from_klm(cords))

NextUrls ==
    \/ DownloadRequest
    \/ DownloadRetrieve
    \/ Sleep
    \/ Poll
    \/ Complete

SpecUrls == InitUrls /\ [][NextUrls]_vars

\* The program is sequential: the statement it is at is executed sooner or
\* later (time.sleep(30) returns, a request that is answered returns).
SpecUrlsFair == SpecUrls /\ WF_vars(NextUrls)

(***************************************************************************)
(* get_scenes_for_datasets on its own: called with the first matches of    *)
(* up to two dataset names, by a client that has logged in.                *)
(***************************************************************************)
DatasetsInputs ==
    {<<>>}
    \cup {<<[key |-> dataset_names[1], value |-> d1]>> : d1 \in DatasetRecords}
    \cup {<<[key |-> dataset_names[1], value |-> d1], [key |-> dataset_names[2], value |-> d2]>> :
            d1 \in DatasetRecords, d2 \in DatasetRecords}

InitScenes ==
    /\ world = ScenesWorld
    /\ variant \in {"download.py", "EROS_Download.py"}
    /\ datasets \in DatasetsInputs
    /\ pc = AfterDatasets(datasets)
    /\ exit_status = -1
    /\ api_key \in Tokens
    /\ i = 1
    /\ scene_ids = <<>>
    /\ scenes_to_download = <<>>
    /\ ready_downloads_info = <<>>
    /\ existing_entities = {}
    /\ files = {}
    /\ call = NoCall
    /\ resp = NoResponse
    /\ out = NoOutcome
    /\ lastOp = "none"
    /\ when = [loginDone |-> TRUE, logoutCalled |-> FALSE, failed |-> FALSE]
    /\ loginDone = TRUE
    /\ logoutCalled = FALSE
    /\ failed = FALSE
    /\ loginKey = api_key
    /\ waits = 0
    /\ retrieves = 0
    /\ seenIds = {}
    /\ requested = <<>>
    /\ transfer = NoTransfer
    /\ fetched = {}
    /\ cords = kml_file
    /\ spatial_filter = SpatialFilter(get_area_rect_from_klm(cords))

NextScenes ==
    \/ SceneSearch
    \/ DownloadOptions

SpecScenes == InitScenes /\ [][NextScenes]_vars

(***************************************************************************)
(* get_area_rect_from_klm on its own: called with the boundary of any      *)
(* polygon of up to MaxCords longitude,latitude,elevation tuples.          *)
(***************************************************************************)
Longitudes == {-1, 0, 1}
Latitudes == {-2, 0, 2}
Elevations == {0}
CordsInputs ==
    SeqsUpTo({<<lon, lat, ele>> : lon \in Longitudes, lat \in Latitudes, ele \in Elevations},
             MaxCords) \ {<<>>}

InitKml ==
    /\ world = SmallWorld
    /\ variant = "download.py"
    /\ pc = "kml"
    /\ exit_status = -1
    /\ api_key \in Tokens
    /\ i = 1
    /\ datasets = <<>>
    /\ scene_ids = <<>>
    /\ scenes_to_download = <<>>
    /\ ready_downloads_info = <<>>
    /\ existing_entities = {}
    /\ files = {}
    /\ call = NoCall
    /\ resp = NoResponse
    /\ out = NoOutcome
    /\ lastOp = "none"
    /\ when = [loginDone |-> TRUE, logoutCalled |-> FALSE, failed |-> FALSE]
    /\ loginDone = TRUE
    /\ logoutCalled = FALSE
    /\ failed = FALSE
    /\ loginKey = api_key
    /\ waits = 0
    /\ retrieves = 0
    /\ seenIds = {}
    /\ requested = <<>>
    /\ transfer = NoTransfer
    /\ fetched = {}
    /\ cords \in CordsInputs
    /\ spatial_filter = NoFilter

\* lower_left, upper_right = get_area_rect_from_klm(kml_file) and the filter
\* built from them
AreaRect ==
    /\ pc = "kml"
    /\ spatial_filter' = SpatialFilter(get_area_rect_from_klm(cords))
    /\ pc' = "kml-done"
    /\ UNCHANGED <<world, variant, exit_status, prog, poll, hist, cords>>

NextKml == AreaRect

SpecKml == InitKml /\ [][NextKml]_vars

(***************************************************************************)
(* Properties.                                                             *)
(***************************************************************************)
Terminated == pc \in {"done", "exited", "crashed"}
IsApiCall == lastOp \in Operations
ValidUrls == {service_url \o <<op>> : op \in Operations}

\* C1: during get_download_urls an entry of the ready-downloads map, once
\* added under a download id, stays in the map with the same {entityId, url}
\* through every later download-retrieve merge of the call.
C1_EntryKept ==
    [][pc' # "exited" =>
         \A n \in 1..Len(ready_downloads_info) :
            \E m \in 1..Len(ready_downloads_info') :
                ready_downloads_info'[m] = ready_downloads_info[n]]_vars

\* C2: for the first dataset (the map starts empty, N candidates requested)
\* the loop waits and polls only while the map holds fewer than N entries, it
\* has stopped as soon as a download-retrieve response leaves N or more in
\* the map, and every polling retrieve follows exactly one wait: the waits
\* number one less than the retrieves whenever a response has been merged.
C2_PollingStops ==
    (i = 1 /\ pc \in {"sleep", "poll", "complete"}) =>
        /\ pc = "sleep" =>
            Len(ready_downloads_info) < requested_downloads_count /\ waits = retrieves - 1
        /\ pc = "poll" =>
            Len(ready_downloads_info) < requested_downloads_count /\ waits = retrieves
        /\ pc = "complete" =>
            Len(ready_downloads_info) >= requested_downloads_count /\ waits = retrieves - 1

\* C2 witness: two candidates, the count is reached by the third retrieve,
\* after exactly two waits
C2_TwoPollsThenDone ==
    /\ pc = "complete"
    /\ i = 1
    /\ requested_downloads_count = 2
    /\ Len(ready_downloads_info) = 2
    /\ waits = 2
    /\ retrieves = 3

\* the dict item a merge stores for an item of an `available` list
ItemOf(d) == [key |-> d.downloadId, value |-> [entityId |-> d.entityId, url |-> d.url]]

\* C3: when get_download_urls returns, the keys of the result are exactly the
\* download ids seen in `available` lists during the call, one entry each;
\* and an entry is only ever put in the map, or changed, by the merge of a
\* download-retrieve response that lists its id with its entityId and url.
C3_ResultIsWhatWasAvailable ==
    [][/\ pc' = "start-fetch" =>
            /\ Keys(ready_downloads_info') = seenIds'
            /\ Len(ready_downloads_info') = Cardinality(seenIds')
       /\ \A n \in 1..Len(ready_downloads_info') :
            \/ ready_downloads_info'[n] \in Range(ready_downloads_info)
            \/ /\ lastOp' = "download-retrieve"
               /\ \E d \in Range(resp'.data.available) :
                    ready_downloads_info'[n] = ItemOf(d)]_vars

\* C3 witness: candidates [{A1, P1}], the first retrieve has nothing
\* available, the second (after one wait) has D1 for A1: the function
\* returns {D1: {A1, url}}
C3_OneWaitOneEntry ==
    /\ pc = "start-fetch"
    /\ scenes_to_download =
         <<[key |-> "wv1", value |-> <<[entityId |-> "A1", productId |-> "P1"]>>]>>
    /\ waits = 1
    /\ retrieves = 2
    /\ ready_downloads_info =
         <<[key |-> "D1", value |-> [entityId |-> "A1", url |-> UrlOf("A1")]]>>

\* C4: send_request returns the data field of the response exactly when the
\* body is a JSON envelope with a null errorCode and the status is none of
\* 400, 401, 404; otherwise it returns nothing and the run is over.
C4_ReturnsDataIff ==
    IsApiCall =>
        /\ (out.kind = "return" /\ out.value = resp.data)
             <=> (resp.body = "envelope" /\ resp.errorCode = None
                    /\ resp.status \notin {400, 401, 404})
        /\ out.kind # "return" => (out.kind = "exit" /\ pc = "exited")

\* C4 witness: a response with status 500 and a null errorCode has its data
\* returned to the caller
C4_Returned500 ==
    /\ lastOp = "dataset-search"
    /\ resp.status = 500
    /\ out.kind = "return"
    /\ Len(out.value) = 2
    /\ pc = "dataset-search"

\* C5: no API call is issued once a call of the run has been answered with a
\* fatal response, and the run is over from then on.
C5_NothingAfterFatal ==
    /\ IsApiCall => ~when.failed
    /\ failed => pc = "exited"

\* C5 witness: a polling download-retrieve answered with HTTP 401
C5_Poll401 ==
    /\ lastOp = "download-retrieve"
    /\ resp.status = 401
    /\ resp.errorCode = None
    /\ resp.body = "envelope"
    /\ failed
    /\ pc = "exited"

\* C6: send_request has closed the response on every path by the time
\* control leaves it.
C6_ResponseClosed == IsApiCall => out.closed

\* C7: a fatal response ends the process with a non-zero exit status.
C7_NonZeroExit == (IsApiCall /\ Fatal(resp)) => (pc = "exited" /\ exit_status # 0)

\* C8: login is sent without the auth header; every other API call is sent
\* after login has returned and before logout is called, with the key of the
\* login response in X-Auth-Token.
C8_Authenticated ==
    IsApiCall =>
        IF lastOp = "login"
        THEN call.headers = {}
        ELSE /\ when.loginDone
             /\ ~when.logoutCalled
             /\ call.headers = {<<"X-Auth-Token", loginKey>>}

\* C8 witness: the logout call of a run whose login returned key2
C8_LogoutWithKey ==
    /\ lastOp = "logout"
    /\ loginKey = "key2"
    /\ call.headers = {<<"X-Auth-Token", "key2">>}
    /\ pc = "done"

\* C9: a run that has logged in ends with logout as its last operation.
C9_LogoutLast == (Terminated /\ loginDone) => lastOp = "logout"

\* C10: every API call is posted to the base service URL followed by one
\* operation name.
C10_UrlIsBasePlusOperation == IsApiCall => call.url \in ValidUrls

\* C11: a dataset-search that is answered without error never ends the run,
\* and after it the searched name is a key of the discovery result exactly
\* when the response had at least one match; the other keys are as before,
\* and only names already searched are keys.  So the keys of the result are
\* exactly the candidate names whose search returned a match.
C11_ZeroMatchesLeftOut ==
    [][(pc = "dataset-search" /\ ~Fatal(resp')) =>
         /\ pc' \notin {"exited", "crashed"}
         /\ Keys(datasets) \subseteq {dataset_names[k] : k \in 1..(i - 1)}
         /\ dataset_names[i] \in Keys(datasets') <=> Len(resp'.data) > 0
         /\ Keys(datasets') \ {dataset_names[i]} = Keys(datasets)]_vars

\* C11 witness: the searches for WORLDVIEW-2 and WORLDVIEW-3 returned no
\* match, the result holds WORLDVIEW-1 alone and the run goes on
C11_OnlyFirstNameFound ==
    /\ lastOp = "dataset-search"
    /\ Len(resp.data) = 0
    /\ pc = "scene-search"
    /\ Keys(datasets) = {"WORLDVIEW-1"}

\* C12: after a dataset-search that returned one or more matches, the
\* discovery result holds under the searched name the first match of that
\* response, and the matches stored for the names searched before are kept.
C12_FirstMatchStored ==
    [][(pc = "dataset-search" /\ ~Fatal(resp')) =>
         /\ Len(resp'.data) > 0 =>
                /\ dataset_names[i] \in Keys(datasets')
                /\ Get(datasets', dataset_names[i]) = resp'.data[1]
         /\ \A n \in Keys(datasets) : Get(datasets', n) = Get(datasets, n)]_vars

\* C12 witness: the search for WORLDVIEW-3 returned two different matches and
\* the first is stored
C12_TwoMatchesFirstKept ==
    /\ lastOp = "dataset-search"
    /\ pc = "scene-search"
    /\ Len(resp.data) = 2
    /\ resp.data[1] # resp.data[2]
    /\ "WORLDVIEW-3" \in Keys(datasets)
    /\ Get(datasets, "WORLDVIEW-3") = resp.data[1]

\* the candidate a download option becomes
CandidateOf(product) == [entityId |-> product.entityId, productId |-> product.id]

\* C13: after a download-options response, the candidate list stored for the
\* dataset has one {entityId, productId} pair for each option whose
\* `available` flag is true and none for the others, in the order of the
\* options; when no option is available nothing is stored.
C13_AvailableInOrder ==
    [][(pc = "download-options" /\ ~Fatal(resp')) =>
         LET opts == resp'.data
             alias == datasets[i].value.datasetAlias
             avail == {n \in 1..Len(opts) : opts[n].available}
         IN IF avail = {}
            THEN scenes_to_download' = scenes_to_download
            ELSE /\ alias \in Keys(scenes_to_download')
                 /\ LET cands == Get(scenes_to_download', alias)
                    IN /\ Len(cands) = Cardinality(avail)
                       /\ \E f \in [1..Len(cands) -> avail] :
                            /\ \A a, b \in 1..Len(cands) : a < b => f[a] < f[b]
                            /\ \A k \in 1..Len(cands) : cands[k] = CandidateOf(opts[f[k]])]_vars

\* C13 witness: the options of wv1 were P2 then P1, both available, and are
\* kept in that order; of the options of wv2, P2 then P1, only P1 is
\* available and only P1 is kept
C13_OrderKeptAndFiltered ==
    /\ lastOp = "download-options"
    /\ resp.data = <<[entityId |-> "A1", id |-> "P2", available |-> FALSE],
                     [entityId |-> "A1", id |-> "P1", available |-> TRUE]>>
    /\ scenes_to_download =
         <<[key |-> "wv1", value |-> <<[entityId |-> "A1", productId |-> "P2"],
                                      [entityId |-> "A1", productId |-> "P1"]>>],
           [key |-> "wv2", value |-> <<[entityId |-> "A1", productId |-> "P1"]>>]>>

\* C14: every alias of the scene mapping maps to a non-empty candidate list.
\* A scene-search reporting zero records is followed by no download-options
\* call for that dataset, changes nothing in the mapping and does not end the
\* run; a download-options response with no available product changes
\* nothing in the mapping and does not end the run either.
C14_NoEmptyCandidateList ==
    [][/\ \A n \in 1..Len(scenes_to_download') : scenes_to_download'[n].value # <<>>
       /\ (pc = "scene-search" /\ ~Fatal(resp') /\ resp'.data.recordsReturned <= 0) =>
            /\ pc' \notin {"download-options", "exited", "crashed"}
            /\ scenes_to_download' = scenes_to_download
       /\ (pc = "download-options" /\ ~Fatal(resp')
              /\ \A n \in 1..Len(resp'.data) : ~resp'.data[n].available) =>
            /\ pc' \notin {"exited", "crashed"}
            /\ scenes_to_download' = scenes_to_download]_vars

\* C14 witness: the first dataset has one available product, the scene-search
\* of the second reports zero records: the function returns a mapping with
\* the first alias alone
C14_SecondDatasetSkipped ==
    /\ lastOp = "scene-search"
    /\ resp.data.recordsReturned = 0
    /\ pc = "download-request"
    /\ Len(scenes_to_download) = 1
    /\ scenes_to_download[1].value = <<[entityId |-> "A1", productId |-> "P1"]>>

\* C15: a call of download_to_file with a target name it has been called
\* with before, the file existing, requests no body and writes no file.
C15_SecondFetchNoTransfer ==
    (lastOp = "file-fetch" /\ transfer.again /\ transfer.existed) =>
        (~transfer.body /\ ~transfer.written)

\* C16: the polling loop has no retry bound.  After every download-retrieve
\* that is answered without error while the server has so far reported fewer
\* distinct download ids than the dataset's candidate count, the loop goes
\* on to another wait, however many waits there have been; and a wait is
\* always followed by another download-retrieve.  The loop is left neither
\* for the next stage nor with an error.
C16_PollsWhileShort ==
    [][/\ (pc \in {"download-retrieve", "poll"} /\ ~Fatal(resp')
              /\ Cardinality(seenIds') < requested_downloads_count) =>
            /\ pc' = "sleep"
            /\ Len(ready_downloads_info') < requested_downloads_count
            /\ exit_status' = -1
       /\ pc = "sleep" =>
            /\ pc' = "poll"
            /\ waits' = waits + 1
            /\ exit_status' = -1]_vars

\* C16 witness: two candidates, one download id reported, and after as many
\* waits as the model follows the loop is about to wait again
C16_StillPollingAtBound ==
    /\ pc = "sleep"
    /\ waits = MaxPolls
    /\ retrieves = MaxPolls + 1
    /\ requested_downloads_count = 2
    /\ Len(ready_downloads_info) = 1

\* C17: the ready map is carried from one dataset to the next unchanged, a
\* retrieve never makes it smaller, and for every dataset the loop is left
\* for the completion log exactly when the size of the whole map, entries of
\* earlier datasets included, has reached that dataset's candidate count.
C17_CumulativeCount ==
    [][/\ (pc \in {"download-retrieve", "poll"} /\ ~Fatal(resp')) =>
            /\ Len(ready_downloads_info') >= Len(ready_downloads_info)
            /\ pc' = "complete" <=> Len(ready_downloads_info') >= requested_downloads_count
            /\ pc' = "sleep" <=> Len(ready_downloads_info') < requested_downloads_count
       /\ (pc \in {"complete", "sleep"} \/ (pc = "download-request" /\ ~Fatal(resp'))) =>
            ready_downloads_info' = ready_downloads_info]_vars

\* C17 witness: the first dataset left one entry in the map; the second has
\* one candidate, its first retrieve has nothing available, and the loop is
\* left at once, without a wait
C17_SecondDatasetDoneAtOnce ==
    /\ pc = "complete"
    /\ i = 2
    /\ requested_downloads_count = 1
    /\ lastOp = "download-retrieve"
    /\ resp.data.available = <<>>
    /\ retrieves = 1
    /\ waits = 0
    /\ Len(ready_downloads_info) = 1

\* the stage a statement of the run belongs to
PcStage(p) ==
    CASE p = "login" -> 1
      [] p = "dataset-search" -> 2
      [] p \in {"scene-search", "download-options"} -> 3
      [] p \in {"download-request", "download-retrieve", "sleep", "poll", "complete"} -> 4
      [] p \in {"start-fetch", "file-fetch"} -> 5
      [] p = "logout" -> 6
      [] OTHER -> 7

\* the stage an operation belongs to
OpStage(op) ==
    CASE op = "login" -> 1
      [] op = "dataset-search" -> 2
      [] op \in {"scene-search", "download-options"} -> 3
      [] op \in {"download-request", "download-retrieve"} -> 4
      [] op = "file-fetch" -> 5
      [] op = "logout" -> 6
      [] OTHER -> 0

\* C18: the run never goes back to an earlier stage and every operation is
\* issued in its own stage; dataset discovery is left (other than by a fatal
\* error) only when the last name has been searched, scene discovery only
\* when the last dataset has been handled, download orchestration only from
\* the completion of the last dataset, and file fetch only after the last
\* ready download.
C18_StagesInOrder ==
    [][/\ PcStage(pc') >= PcStage(pc)
       /\ OpStage(lastOp') >= OpStage(lastOp)
       /\ <<call, resp, lastOp, transfer>>' # <<call, resp, lastOp, transfer>> =>
            OpStage(lastOp') = PcStage(pc)
       /\ (PcStage(pc') > PcStage(pc) /\ pc' \notin {"exited", "crashed"}) =>
            CASE PcStage(pc) = 2 -> i = Len(dataset_names)
              [] PcStage(pc) = 3 -> i = Len(datasets)
              [] PcStage(pc) = 4 -> pc = "complete" /\ i = Len(scenes_to_download)
              [] pc = "file-fetch" -> i = Len(ready_downloads_info)
              [] OTHER -> TRUE]_vars

\* C18 witness: a run of the script client that went through every stage:
\* a file was fetched and written, and logout has returned
C18_AllStagesDone ==
    /\ variant = "download.py"
    /\ pc = "done"
    /\ lastOp = "logout"
    /\ transfer.written
    /\ when.loginDone

\* C19: for every non-empty boundary of longitude,latitude,elevation tuples
\* the spatial filter has lowerLeft at the least latitude and the least
\* longitude of the tuples and upperRight at the greatest, so lowerLeft is
\* not above or right of upperRight.
C19_BoundingBox ==
    pc = "kml-done" =>
        LET lons == {cords[k][1] : k \in 1..Len(cords)}
            lats == {cords[k][2] : k \in 1..Len(cords)}
            ll == spatial_filter.lowerLeft
            ur == spatial_filter.upperRight
        IN /\ ll.latitude <= ur.latitude
           /\ ll.longitude <= ur.longitude
           /\ ll.latitude \in lats /\ \A y \in lats : ll.latitude <= y
           /\ ur.latitude \in lats /\ \A y \in lats : ur.latitude >= y
           /\ ll.longitude \in lons /\ \A x \in lons : ll.longitude <= x
           /\ ur.longitude \in lons /\ \A x \in lons : ur.longitude >= x

\* C19 witness: the boundary (1,-2,0) (-1,2,0) gives lowerLeft (-2,-1) and
\* upperRight (2,1) as (latitude, longitude)
C19_TwoCorners ==
    /\ pc = "kml-done"
    /\ cords = <<<<1, -2, 0>>, <<-1, 2, 0>>>>
    /\ spatial_filter.lowerLeft = [latitude |-> -2, longitude |-> -1]
    /\ spatial_filter.upperRight = [latitude |-> 2, longitude |-> 1]

\* the aliases of the first n datasets of the input of get_download_urls
FirstAliases(n) == [k \in 1..n |-> scenes_to_download[k].key]

\* C20: while get_download_urls runs, one download-request has been posted
\* for each dataset taken up so far and none for the others, in the order of
\* the input: none yet for the dataset about to be requested, exactly one
\* for the dataset being retrieved or polled, one for every dataset when the
\* function returns.  The request carries the dataset's whole candidate list
\* and the fixed label and is the call just before the dataset's first
\* download-retrieve; inside the polling loop the last call is always a
\* download-retrieve under the same label.
C20_OneRequestPerDataset ==
    /\ pc = "download-request" => requested = FirstAliases(i - 1)
    /\ pc \in {"download-retrieve", "sleep", "poll", "complete"} => requested = FirstAliases(i)
    /\ pc = "start-fetch" => requested = FirstAliases(Len(scenes_to_download))
    /\ pc = "download-retrieve" =>
          /\ lastOp = "download-request"
          /\ call.data = [downloads |-> scenes_to_download[i].value, label |-> "download-sample"]
    /\ pc \in {"sleep", "poll", "complete"} =>
          /\ lastOp = "download-retrieve"
          /\ call.data = [label |-> "download-sample"]

\* C20 witness: the second of two datasets has been polled twice and is
\* complete: two download-requests in all, one for each alias
C20_TwoDatasetsTwoRequests ==
    /\ pc = "complete"
    /\ i = 2
    /\ waits = 2
    /\ retrieves = 3
    /\ requested = <<"wv1", "wv2">>

\* the accumulated map has reached the count of the dataset being handled
Enough ==
    /\ pc \in {"download-retrieve", "sleep", "poll", "complete"}
    /\ Len(ready_downloads_info) >= requested_downloads_count

\* C21: if no API call of get_download_urls is answered with an error and,
\* whenever a dataset is being retrieved or polled, the responses sooner or
\* later bring the accumulated map up to that dataset's count, then
\* get_download_urls returns.
C21_PollingTerminates ==
    ([](pc # "exited")
       /\ [](pc \in {"download-retrieve", "sleep", "poll"} => <>Enough))
    => <>(pc = "start-fetch")

\* C21 witness: two datasets, the second polled twice, and the function has
\* returned
C21_ReturnedAfterPolling ==
    /\ pc = "start-fetch"
    /\ Len(scenes_to_download) = 2
    /\ waits = 2
    /\ ~failed

\* C22: when get_download_urls has returned, every candidate of every dataset
\* of the input has an entry in the result whose entityId is the candidate's.
C22_EveryCandidateReady ==
    pc = "start-fetch" =>
        \A k \in 1..Len(scenes_to_download) :
            \A c \in Range(scenes_to_download[k].value) :
                \E n \in 1..Len(ready_downloads_info) :
                    ready_downloads_info[n].value.entityId = c.entityId

====
